---- MODULE Spec2Model ----
(***************************************************************************)
(* The periodic feed worker of the blog aggregator (src/main.go,           *)
(* getFeedsWorker and getFeed), with the Feed Store and Post Store it      *)
(* talks to.  One scheduling goroutine, one goroutine per feed of a batch, *)
(* one wg.Wait goroutine per tick, and three unbuffered channels created   *)
(* once, before the loop.  A send on an unbuffered channel completes only  *)
(* together with its receive, so every channel operation is one joint      *)
(* step of the sender and of the worker's select.                          *)
(***************************************************************************)
EXTENDS Integers, Sequences, FiniteSets, TLC

\* ---------------------------------------------------------------- bounds

\* Feeds that POST /v1/feeds can create.
NumFeeds == 3
\* Timer ticks the worker is followed for.
MaxTicks == 2
\* The limit handed to GetNextFeedsToFetch.  The code passes 10
\* (src/main.go:395); the model scales it down so that the limit binds
\* (NumFeeds > BatchLimit) while every interleaving stays explorable.
BatchLimit == 2

\* Pieces an Authorization header is drawn from, at most.
MaxHeaderLen == 3

FeedIds == 1..NumFeeds
Ticks == 1..MaxTicks

\* ------------------------------------------------------- remote documents

\* The one layout time.Parse(time.RFC1123Z, ...) accepts, as a value.
GoodDate == "Mon, 02 Jan 2006 15:04:05 -0700"
\* The zero time.Time, and the instant GoodDate denotes.
ZeroTime == "0001-01-01T00:00:00Z"
GoodInstant == "2006-01-02T22:04:05Z"

Item(title, link, pubDate, description) ==
    [Title |-> title, Link |-> link, PubDate |-> pubDate, Description |-> description]

\* What the server behind each feed's URL serves: feed 1 two items, the
\* others one item each.
Doc(f) ==
    CASE f = 1 -> << Item("a", "u1a", GoodDate, "about a"),
                     Item("b", "u1b", "", "") >>
      [] f = 2 -> << Item("c", "u2c", "yesterday", "about c") >>
      [] OTHER -> << Item("d", "u3d", GoodDate, "") >>

Prefixes(s) == { SubSeq(s, 1, n) : n \in 0..Len(s) }

\* What http.Get and the body of the response can be for a feed's URL: the
\* transport never answers, the transport fails, or a response arrives with
\* some status and a body that is well formed (the whole document) or
\* malformed (xml.Unmarshal fails having filled in some prefix of the items).
Responses(f) ==
    { [kind |-> "hang"], [kind |-> "transportError"] }
    \cup { [kind |-> "response", status |-> st, wellFormed |-> TRUE, items |-> Doc(f)]
           : st \in {200, 500} }
    \cup { [kind |-> "response", status |-> st, wellFormed |-> FALSE, items |-> p]
           : st \in {200, 500}, p \in Prefixes(Doc(f)) }

\* feedData{}: the zero value.
EmptyFeedData == [Items |-> << >>, FeedID |-> 0]

\* getFeed (src/main.go:372-387): the result of a response that arrives.
\* The status of the response is never looked at.
getFeed(resp) ==
    IF resp.kind = "transportError"
    THEN [fd |-> EmptyFeedData, err |-> TRUE]
    ELSE [fd |-> [Items |-> resp.items, FeedID |-> 0], err |-> ~resp.wellFormed]

\* ------------------------------------------------------------------ state

VARIABLES
    feeds,          \* Feed Store: the ids of the feeds created so far
    lastFetchedAt,  \* Feed Store: last_fetched_at of each feed, 0 for NULL
    posts,          \* Post Store
    createCalls,    \* history: every CreatePost call the worker made
    worker,         \* the scheduling goroutine: pc, tick, batch, loop index
    lfaAtStart,     \* history: lastFetchedAt when the current tick selected
    loopFeed,       \* the loop variable `feed` of each tick's spawning loop
    tasks,          \* the per-feed goroutines, by <<tick, index>>
    waiters,        \* the wg.Wait goroutine of each tick
    users,          \* User Store: the api keys of the users created so far
    authReply,      \* the last request to an authenticated endpoint, answered
    fetchReply      \* the last getFeed call that returned, with its response

workerVars == << feeds, lastFetchedAt, posts, createCalls, worker, lfaAtStart,
                 loopFeed, tasks, waiters >>
httpVars == << users, authReply, fetchReply >>
vars == << feeds, lastFetchedAt, posts, createCalls, worker, lfaAtStart,
           loopFeed, tasks, waiters, users, authReply, fetchReply >>

Init ==
    /\ feeds = {}
    /\ lastFetchedAt = [f \in FeedIds |-> 0]
    /\ posts = {}
    /\ createCalls = {}
    /\ worker = [pc |-> "timer", tick |-> 0, feeds |-> << >>, i |-> 1]
    /\ lfaAtStart = [f \in FeedIds |-> 0]
    /\ loopFeed = << >>
    /\ tasks = << >>
    /\ waiters = << >>
    /\ users = {}
    /\ authReply = [served |-> FALSE]
    /\ fetchReply = [returned |-> FALSE]

\* ---------------------------------------------------------------- stores

Min(a, b) == IF a <= b THEN a ELSE b

\* Feed Store, "list next N feeds needing fetch": the feeds never fetched
\* first, then by ascending last_fetched_at, at most `limit` of them; feeds
\* of equal staleness come in any order.  The result is one of these.
GetNextFeedsToFetch(limit) ==
    { s \in [1..Min(limit, Cardinality(feeds)) -> feeds] :
        /\ \A i, j \in DOMAIN s : i < j =>
              /\ s[i] # s[j]
              /\ lastFetchedAt[s[i]] <= lastFetchedAt[s[j]]
        /\ \A g \in feeds \ { s[i] : i \in DOMAIN s } :
              \A i \in DOMAIN s : lastFetchedAt[s[i]] <= lastFetchedAt[g] }

\* CreatePost, had the store kept no uniqueness constraint.
CreatePostNoConstraint(ps, params) == ps \cup {params}

\* Post Store, "insert post for feed": a post whose feed and url are already
\* stored is rejected and the store is left as it was.
CreatePost(ps, params) ==
    IF \E p \in ps : p.FeedID = params.FeedID /\ p.Url = params.Url
    THEN ps
    ELSE ps \cup {params}

\* time.Parse(time.RFC1123Z, s): the instant, or the zero time and an error.
ParseRFC1123Z(s) ==
    IF s = GoodDate
    THEN [t |-> GoodInstant, err |-> FALSE]
    ELSE [t |-> ZeroTime, err |-> TRUE]

\* ---------------------------------------------------------- ingestion

\* The CreatePostParams built for one item (src/main.go:426-446), statement
\* by statement.  ID, CreatedAt and UpdatedAt are fresh values nothing reads.
\* "now" stands for time.Now().
CreateParamsFor(item, feedID) ==
    LET d0 == [String |-> "", Valid |-> FALSE]
        d1 == IF item.Description # ""
              THEN [String |-> item.Description, Valid |-> TRUE] ELSE d0
        d2 == [String |-> "", Valid |-> FALSE]
        p0 == [Time |-> ZeroTime, Valid |-> FALSE]
        p1 == IF item.PubDate = "" THEN [Time |-> "now", Valid |-> FALSE] ELSE p0
        parsed == ParseRFC1123Z(item.PubDate)
        p2 == IF parsed.err THEN [Time |-> "now", Valid |-> FALSE] ELSE p1
        p3 == [Time |-> parsed.t, Valid |-> TRUE]
    IN  [Title |-> item.Title, Url |-> item.Link, FeedID |-> feedID,
         Description |-> d2, PublishedAt |-> p3]

\* uuid.New() (src/main.go:427): an id no stored post has.
NewUUID(ps) == Cardinality(ps) + 1

\* The params with their ID field set.
WithID(params, id) == ("ID" :> id) @@ params

\* One iteration of the loop: the CreatePost call for item n, as the call
\* made (the item's index, its params, whether the store rejected it) and
\* the store after it.
CallFor(ps, fd, n) ==
    LET params == CreateParamsFor(fd.Items[n], fd.FeedID)
        after == CreatePost(ps, WithID(params, NewUUID(ps)))
    IN  [posts |-> after,
         call |-> [idx |-> n, params |-> params, rejected |-> (after = ps)]]

\* IngestFrom, had the loop stopped at the first CreatePost the store
\* rejects.
RECURSIVE IngestFromStopsOnReject(_, _, _)
IngestFromStopsOnReject(acc, fd, n) ==
    IF n > Len(fd.Items)
    THEN acc
    ELSE LET c == CallFor(acc.posts, fd, n)
             next == [posts |-> c.posts, calls |-> Append(acc.calls, c.call)]
         IN  IF c.call.rejected THEN next ELSE IngestFromStopsOnReject(next, fd, n + 1)

\* The loop over feed.Channel.Item (src/main.go:424-449): one CreatePost per
\* item, in document order, its result discarded.  acc holds the store and
\* the calls made so far.
RECURSIVE IngestFrom(_, _, _)
IngestFrom(acc, fd, n) ==
    IF n > Len(fd.Items)
    THEN acc
    ELSE LET c == CallFor(acc.posts, fd, n)
         IN  IngestFrom([posts |-> c.posts, calls |-> Append(acc.calls, c.call)],
                        fd, n + 1)

Ingest(ps, fd) == IngestFrom([posts |-> ps, calls |-> << >>], fd, 1)

\* FeedStoreAfterIngest, had the feedChan case marked the document's feed as
\* fetched whatever the fetch's outcome.
FeedStoreAfterIngestMarks(lfa, fd, now) ==
    IF fd.FeedID \in DOMAIN lfa THEN [lfa EXCEPT ![fd.FeedID] = now] ELSE lfa

\* What consuming a document does to last_fetched_at in the Feed Store: the
\* feedChan case makes no Feed Store call, so nothing.
FeedStoreAfterIngest(lfa, fd, now) == lfa

\* ------------------------------------------------------------ goroutines

TaskIds == DOMAIN tasks
TasksOf(k) == { id \in TaskIds : id[1] = k }
\* A goroutine that has not returned: running, or blocked in http.Get or on
\* a channel send.
Alive(id) == tasks[id].pc # "returned"
\* The counter of tick k's sync.WaitGroup: wg.Add(1) per spawned task,
\* wg.Done() when the task returns.
WgCount(k) == Cardinality({ id \in TasksOf(k) : Alive(id) })

\* The goroutine started for feeds[i] of tick k (src/main.go:405-413).
NewTask(f) ==
    [f |-> f, pc |-> "getFeed", fd |-> EmptyFeedData, err |-> FALSE,
     errAt |-> 0, fdAt |-> 0]

\* Spawned, had the loop started no goroutine for the second feed of a batch.
SpawnedSkipsSecond(k, i, f) ==
    IF i = 2 THEN << >> ELSE (<< k, i >> :> NewTask(f))

\* The tasks one iteration of the spawning loop starts.
Spawned(k, i, f) == (<< k, i >> :> NewTask(f))

\* The values `feed.ID` can yield inside the goroutine (src/main.go:408):
\* `feed` is the loop variable, not the parameter f.  With one variable per
\* loop the goroutine reads whatever the loop holds at that moment; with one
\* variable per iteration it reads its own feed.
ReadLoopFeed(id) == { tasks[id].f, loopFeed[id[1]] }

\* ---------------------------------------------------------------- actions

\* POST /v1/feeds (handleFeedsPost, src/main.go:193-241): CreateFeed stores a
\* new feed, never fetched.
HandleFeedsPost ==
    /\ \E f \in FeedIds \ feeds :
          /\ \A g \in FeedIds : g < f => g \in feeds
          /\ feeds' = feeds \cup {f}
    /\ UNCHANGED << lastFetchedAt, posts, createCalls, worker, lfaAtStart,
                    loopFeed, tasks, waiters >>
    /\ UNCHANGED httpVars

\* The timer fires and GetNextFeedsToFetch returns a batch
\* (src/main.go:394-401).
TickSelectsBatch ==
    /\ worker.pc = "timer"
    /\ worker.tick < MaxTicks
    /\ \E batch \in GetNextFeedsToFetch(BatchLimit) :
          worker' = [pc |-> "spawn", tick |-> worker.tick + 1, feeds |-> batch, i |-> 1]
    /\ lfaAtStart' = lastFetchedAt
    /\ UNCHANGED << feeds, lastFetchedAt, posts, createCalls, loopFeed, tasks, waiters >>
    /\ UNCHANGED httpVars

\* The timer fires and GetNextFeedsToFetch returns an error: the message is
\* printed and `break` leaves the for loop, so getFeedsWorker returns
\* (src/main.go:396-399).
TickSelectionFails ==
    /\ worker.pc = "timer"
    /\ worker.tick < MaxTicks
    /\ worker' = [pc |-> "exited", tick |-> worker.tick + 1, feeds |-> << >>, i |-> 1]
    /\ lfaAtStart' = lastFetchedAt
    /\ UNCHANGED << feeds, lastFetchedAt, posts, createCalls, loopFeed, tasks, waiters >>
    /\ UNCHANGED httpVars

\* One iteration of `for _, feed := range feeds` (src/main.go:402-414): the
\* loop variable takes the next feed, wg.Add(1), and the goroutine starts
\* with that feed as its parameter f.
SpawnTask ==
    /\ worker.pc = "spawn"
    /\ worker.i <= Len(worker.feeds)
    /\ loopFeed' = (worker.tick :> worker.feeds[worker.i]) @@ loopFeed
    /\ tasks' = Spawned(worker.tick, worker.i, worker.feeds[worker.i]) @@ tasks
    /\ worker' = [worker EXCEPT !.i = @ + 1]
    /\ UNCHANGED << feeds, lastFetchedAt, posts, createCalls, lfaAtStart, waiters >>
    /\ UNCHANGED httpVars

\* After the loop, the goroutine that waits for the tick's WaitGroup starts
\* and the worker reaches its select (src/main.go:415-420).
SpawnWaiter ==
    /\ worker.pc = "spawn"
    /\ worker.i > Len(worker.feeds)
    /\ waiters' = (worker.tick :> "wait") @@ waiters
    /\ worker' = [worker EXCEPT !.pc = "select"]
    /\ UNCHANGED << feeds, lastFetchedAt, posts, createCalls, lfaAtStart,
                    loopFeed, tasks >>
    /\ UNCHANGED httpVars

\* A task's getFeed(f.Url) and `feedData.FeedID = feed.ID`
\* (src/main.go:407-408).  http.Get carries no deadline: when the server
\* never answers the goroutine stays in the call.
TaskGetFeed(id) ==
    /\ tasks[id].pc = "getFeed"
    /\ \E resp \in Responses(tasks[id].f) :
          IF resp.kind = "hang"
          THEN tasks' = [tasks EXCEPT ![id].pc = "hung"]
          ELSE \E fid \in ReadLoopFeed(id) :
                  LET r == getFeed(resp) IN
                  tasks' = [tasks EXCEPT
                              ![id].fd = [r.fd EXCEPT !.FeedID = fid],
                              ![id].err = r.err,
                              ![id].pc = IF r.err THEN "sendErr" ELSE "sendFeed"]
    /\ UNCHANGED << feeds, lastFetchedAt, posts, createCalls, worker, lfaAtStart,
                    loopFeed, waiters >>
    /\ UNCHANGED httpVars

\* `case err := <-errorChan` meets a task's `errorChan <- err`
\* (src/main.go:410, 421-422): the error is printed, the select is over and
\* the worker waits for the timer; the task goes on to its feedChan send.
SelectError(id) ==
    /\ worker.pc = "select"
    /\ tasks[id].pc = "sendErr"
    /\ tasks' = [tasks EXCEPT ![id].pc = "sendFeed", ![id].errAt = worker.tick]
    /\ worker' = [worker EXCEPT !.pc = "timer"]
    /\ UNCHANGED << feeds, lastFetchedAt, posts, createCalls, lfaAtStart,
                    loopFeed, waiters >>
    /\ UNCHANGED httpVars

\* `case feed := <-feedChan` meets a task's `feedChan <- feedData`
\* (src/main.go:412, 423-449): every item of the document goes to CreatePost;
\* the task returns, which runs its deferred wg.Done().
SelectFeed(id) ==
    /\ worker.pc = "select"
    /\ tasks[id].pc = "sendFeed"
    /\ LET done == Ingest(posts, tasks[id].fd) IN
          /\ posts' = done.posts
          /\ createCalls' = createCalls \cup
                { [tick |-> worker.tick, task |-> id, idx |-> done.calls[j].idx,
                   params |-> done.calls[j].params,
                   rejected |-> done.calls[j].rejected]
                  : j \in DOMAIN done.calls }
    /\ lastFetchedAt' = FeedStoreAfterIngest(lastFetchedAt, tasks[id].fd, worker.tick)
    /\ tasks' = [tasks EXCEPT ![id].pc = "returned", ![id].fdAt = worker.tick]
    /\ worker' = [worker EXCEPT !.pc = "timer"]
    /\ UNCHANGED << feeds, lfaAtStart, loopFeed, waiters >>
    /\ UNCHANGED httpVars

\* wg.Wait() of tick k's waiter returns once every task of tick k has
\* returned (src/main.go:416).
WaiterProceeds(k) ==
    /\ k \in DOMAIN waiters
    /\ waiters[k] = "wait"
    /\ WgCount(k) = 0
    /\ waiters' = [waiters EXCEPT ![k] = "send"]
    /\ UNCHANGED << feeds, lastFetchedAt, posts, createCalls, worker, lfaAtStart,
                    loopFeed, tasks >>
    /\ UNCHANGED httpVars

\* `case <-done` meets a waiter's `done <- struct{}{}` (src/main.go:417,
\* 450-451).
SelectDone(k) ==
    /\ worker.pc = "select"
    /\ k \in DOMAIN waiters
    /\ waiters[k] = "send"
    /\ waiters' = [waiters EXCEPT ![k] = "returned"]
    /\ worker' = [worker EXCEPT !.pc = "timer"]
    /\ UNCHANGED << feeds, lastFetchedAt, posts, createCalls, lfaAtStart,
                    loopFeed, tasks >>
    /\ UNCHANGED httpVars

Next ==
    \/ HandleFeedsPost
    \/ TickSelectsBatch
    \/ TickSelectionFails
    \/ SpawnTask
    \/ SpawnWaiter
    \/ \E id \in TaskIds : TaskGetFeed(id)
    \/ \E id \in TaskIds : SelectError(id)
    \/ \E id \in TaskIds : SelectFeed(id)
    \/ \E k \in Ticks : WaiterProceeds(k)
    \/ \E k \in Ticks : SelectDone(k)

Spec == Init /\ [][Next]_vars

\* Every goroutine that can take a step eventually takes one.
FairSpec == Spec /\ WF_vars(Next)

\* ------------------------------------------------------ HTTP endpoints

\* The api keys the User Store can hand out.
ApiKeys == {"k1", "k2"}

\* An Authorization header, as the pieces it is written from: a piece is a
\* run of white space (" ") or a word; the header is their concatenation.
Pieces == {" ", "ApiKey", "Bearer"} \cup ApiKeys
Headers == UNION { [1..n -> Pieces] : n \in 0..MaxHeaderLen }

\* strings.Fields: the maximal runs of non-space characters, so words next
\* to each other with no space between make one field.
RECURSIVE FieldsFrom(_, _, _, _)
FieldsFrom(h, n, done, cur) ==
    IF n > Len(h)
    THEN IF cur = "" THEN done ELSE Append(done, cur)
    ELSE IF h[n] = " "
         THEN FieldsFrom(h, n + 1, IF cur = "" THEN done ELSE Append(done, cur), "")
         ELSE FieldsFrom(h, n + 1, done, cur \o h[n])

Fields(h) == FieldsFrom(h, 1, << >>, "")

\* middlewareAuth (src/main.go:59-80) for a request with Authorization
\* header h against the stored keys: the status written, whether the wrapped
\* handler ran, whether the handler panicked.  fields[0], fields[1] index the
\* slice without a length check; on a panic the server recovers, writes no
\* response and drops the connection (status 0).
middlewareAuth(h, keys) ==
    LET fields == Fields(h) IN
    IF Len(h) = 0
    THEN [status |-> 401, next |-> FALSE, panicked |-> FALSE]
    ELSE IF Len(fields) < 2
    THEN [status |-> 0, next |-> FALSE, panicked |-> TRUE]
    ELSE IF fields[1] # "ApiKey"
    THEN [status |-> 401, next |-> FALSE, panicked |-> FALSE]
    ELSE IF fields[2] \notin keys
    THEN [status |-> 401, next |-> FALSE, panicked |-> FALSE]
    ELSE [status |-> 200, next |-> TRUE, panicked |-> FALSE]

\* POST /v1/users (handleUsersPost, src/main.go:160-186): CreateUser stores
\* a user with a new api key.
HandleUsersPost ==
    /\ \E k \in ApiKeys \ users : users' = users \cup {k}
    /\ UNCHANGED << authReply, fetchReply >>
    /\ UNCHANGED workerVars

\* A request to an endpoint wrapped in middlewareAuth, GET /v1/users for
\* one (src/main.go:117), with any Authorization header.
ServeAuthed ==
    /\ \E h \in Headers :
          authReply' = [served |-> TRUE, header |-> h, keys |-> users,
                        reply |-> middlewareAuth(h, users)]
    /\ UNCHANGED << users, fetchReply >>
    /\ UNCHANGED workerVars

\* getFeed called on a feed's URL, with any response that lets it return.
CallGetFeed ==
    /\ \E f \in FeedIds : \E resp \in Responses(f) :
          /\ resp.kind # "hang"
          /\ fetchReply' = [returned |-> TRUE, resp |-> resp, out |-> getFeed(resp)]
    /\ UNCHANGED << users, authReply >>
    /\ UNCHANGED workerVars

HttpNext ==
    \/ HandleUsersPost
    \/ ServeAuthed
    \/ CallGetFeed

\* The endpoints and getFeed on their own, the worker at rest.
HttpSpec == Init /\ [][HttpNext]_vars

\* ----------------------------------------------------------- properties

\* The loop body of tick k is over: the select has returned and the worker
\* is back at the timer.
TickDone(k) == k >= 1 /\ worker.tick = k /\ worker.pc = "timer"

\* getFeed has returned in the task.
Fetched(id) == tasks[id].pc \in {"sendErr", "sendFeed", "returned"}
FetchOK(id) == Fetched(id) /\ ~tasks[id].err
FetchFailed(id) == Fetched(id) /\ tasks[id].err

\* The task's document was received in tick k and each of its items was
\* passed to CreatePost in tick k.
FullyIngestedIn(id, k) ==
    /\ tasks[id].fdAt = k
    /\ \A n \in DOMAIN tasks[id].fd.Items :
          \E c \in createCalls : c.tick = k /\ c.task = id /\ c.idx = n

\* A task holding the outcome of its fetch, blocked on the send that hands
\* it to the select.
HoldsResult(id) ==
    \/ tasks[id].pc = "sendErr"
    \/ tasks[id].pc = "sendFeed" /\ ~tasks[id].err

AliveTasks == { id \in TaskIds : Alive(id) }

\* C1: the worker does not leave the timer for its next batch selection
\* while a task spawned in an earlier tick is still alive.
C1_TicksSerialized ==
    [][(worker.pc = "timer" /\ worker'.pc # "timer")
          => \A id \in TaskIds : ~Alive(id)]_vars

\* C2: when the loop body of a tick is over and its batch held two or more
\* feeds that all fetched and parsed, every item of every one of their
\* documents has been passed to CreatePost in that tick.
C2_BatchFullyIngested ==
    \A k \in Ticks :
        (/\ TickDone(k)
         /\ Len(worker.feeds) >= 2
         /\ \A id \in TasksOf(k) : FetchOK(id))
        => \A id \in TasksOf(k) : FullyIngestedIn(id, k)

\* C3: when the loop body of a tick is over, every task of the tick has
\* fetched and one of them failed, each task whose fetch succeeded has had
\* all its items passed to CreatePost in that tick.
C3_FailureIsolated ==
    \A k \in Ticks :
        (/\ TickDone(k)
         /\ \A id \in TasksOf(k) : Fetched(id)
         /\ \E id \in TasksOf(k) : FetchFailed(id))
        => \A id \in TasksOf(k) : FetchOK(id) => FullyIngestedIn(id, k)

\* C4: a failed batch selection never ends the scheduling loop.
C4_LoopSurvivesSelectionError == worker.pc # "exited"

\* C5: when the loop body of a tick is over, each feed of the batch that
\* fetched, parsed and was ingested in the tick has last_fetched_at equal to
\* the tick's start time.
C5_MarkedFetched ==
    \A k \in Ticks :
        TickDone(k) =>
            \A id \in TasksOf(k) :
                (FetchOK(id) /\ FullyIngestedIn(id, k))
                => lastFetchedAt[tasks[id].f] = k

\* C6: a feed of the current tick's batch whose fetch failed has the
\* last_fetched_at it had when the tick selected its batch, during the tick
\* and after it.
C6_FailedFetchKeepsLastFetchedAt ==
    \A id \in TasksOf(worker.tick) :
        FetchFailed(id) =>
            /\ tasks[id].f \in feeds
            /\ lastFetchedAt[tasks[id].f] = lfaAtStart[tasks[id].f]

\* C6 witness: a tick is over in which a feed's fetch failed and the
\* worker's select received that failure.
C6_Witness ==
    \E k \in Ticks :
        /\ TickDone(k)
        /\ \E id \in TasksOf(k) : FetchFailed(id) /\ tasks[id].errAt = k

\* C7: a worker waiting in its select always gets out of it, so the tick
\* completes.
C7_TickEventuallyCompletes == (worker.pc = "select") ~> (worker.pc # "select")

\* C8: no outcome of a fetch is left unconsumed: once the worker has
\* returned, and nothing receives any more, no task is still holding one.
C8_NoResultDropped ==
    worker.pc = "exited" => \A id \in TaskIds : ~HoldsResult(id)

\* C9: while the spawning loop runs it has started one task per feed it has
\* passed, and once it is over the tick's tasks are exactly one per feed of
\* the batch, each started with its feed, the batch no longer than the limit.
C9_OneTaskPerFeed ==
    LET k == worker.tick IN
    /\ worker.pc = "spawn" =>
          TasksOf(k) = { << k, i >> : i \in 1..(worker.i - 1) }
    /\ worker.pc \in {"select", "timer"} /\ k >= 1 =>
          /\ Len(worker.feeds) <= BatchLimit
          /\ TasksOf(k) = { << k, i >> : i \in 1..Len(worker.feeds) }
          /\ \A i \in 1..Len(worker.feeds) : tasks[<< k, i >>].f = worker.feeds[i]

\* C9 witness: more feeds are stored than the limit, the batch is as long
\* as the limit and the loop has started all its tasks.
C9_Witness ==
    /\ worker.pc = "select"
    /\ Cardinality(feeds) > BatchLimit
    /\ Len(worker.feeds) = BatchLimit
    /\ Cardinality(TasksOf(worker.tick)) = BatchLimit

\* C10: never more tasks alive than one batch holds.
C10_AliveTasksBounded == Cardinality(AliveTasks) <= BatchLimit

\* The items of the document a CreatePost call of the history belongs to.
ItemOf(c) == tasks[c.task].fd.Items[c.idx]

\* Task id is about to hand over a document that an earlier tick already
\* ingested: the same items, filed under the same feed.
Reingests(id) ==
    \E e \in TaskIds \ {id} :
        /\ tasks[e].fdAt # 0
        /\ tasks[e].fdAt < worker.tick
        /\ tasks[e].fd = tasks[id].fd

C12_RejectionDoesNotAbort ==
    \A c \in createCalls :
        c.rejected =>
            \A n \in DOMAIN tasks[c.task].fd.Items :
                n > c.idx =>
                    \E d \in createCalls :
                        d.task = c.task /\ d.tick = c.tick /\ d.idx = n

\* C12 witness: the first item of a two-item document was rejected and the
\* second item was passed to CreatePost all the same.
C12_Witness ==
    \E c, d \in createCalls :
        /\ c.rejected /\ c.idx = 1
        /\ Len(tasks[c.task].fd.Items) = 2
        /\ d.task = c.task /\ d.tick = c.tick /\ d.idx = 2

\* C13: every item passed to CreatePost whose pubDate is empty or does not
\* parse as RFC1123Z has PublishedAt absent.
C13_UnknownPublishTimeAbsent ==
    \A c \in createCalls :
        (ItemOf(c).PubDate = "" \/ ParseRFC1123Z(ItemOf(c).PubDate).err)
        => ~c.params.PublishedAt.Valid

\* C15: every error and every document the select receives comes from a
\* task of the current tick, and every done signal from the current tick's
\* waiter.
C15_NoStaleOutcome ==
    [][/\ \A id \in TaskIds :
             (tasks'[id].errAt # tasks[id].errAt \/ tasks'[id].fdAt # tasks[id].fdAt)
             => id[1] = worker.tick
       /\ \A k \in DOMAIN waiters :
             (waiters[k] = "send" /\ waiters'[k] = "returned") => k = worker.tick]_vars

\* C16: no goroutine is left blocked on a channel send that nothing will
\* ever receive: once the worker has returned, no task waits on errorChan or
\* feedChan and no waiter on done.
C16_NoGoroutineBlockedForever ==
    worker.pc = "exited" =>
        /\ \A id \in TaskIds : tasks[id].pc \notin {"sendErr", "sendFeed"}
        /\ \A k \in DOMAIN waiters : waiters[k] # "send"

\* C17: a task whose fetch failed does not go on to send a document on
\* feedChan, and no document of a failed fetch is ever ingested.
C17_FailedTaskSendsNoDocument ==
    \A id \in TaskIds :
        tasks[id].err => tasks[id].pc # "sendFeed" /\ tasks[id].fdAt = 0

\* C18: every CreatePost call carries the id of the feed whose URL the
\* task fetched.
C18_PostsCarryOwnFeedID ==
    \A c \in createCalls : c.params.FeedID = tasks[c.task].f

\* C19: every item passed to CreatePost with a non-empty description has
\* that description present, and every item with an empty one has it absent.
C19_DescriptionKept ==
    \A c \in createCalls :
        /\ ItemOf(c).Description # "" =>
              c.params.Description = [String |-> ItemOf(c).Description, Valid |-> TRUE]
        /\ ItemOf(c).Description = "" => ~c.params.Description.Valid

\* C14: whenever the transport fails or the response's status is not a
\* success (2xx), getFeed returns an error.
C14_NonSuccessIsFailure ==
    fetchReply.returned =>
        ((\/ fetchReply.resp.kind = "transportError"
          \/ fetchReply.resp.status \notin 200..299)
         => fetchReply.out.err)

\* The header reads "ApiKey <key>" with a key the store knows.
GoodAuthorization(h, keys) ==
    /\ Len(Fields(h)) >= 2
    /\ Fields(h)[1] = "ApiKey"
    /\ Fields(h)[2] \in keys

\* C20: a request whose Authorization header is not "ApiKey <key>" with a
\* known key is answered 401 and the wrapped handler does not run.
C20_BadAuthorizationIs401 ==
    (authReply.served /\ ~GoodAuthorization(authReply.header, authReply.keys))
    => (authReply.reply.status = 401 /\ ~authReply.reply.next)

====
